---- MODULE Spec2Model ----
(***************************************************************************)
(* Model of MORISWITCH_V2.ino: a six-switch, four-bank MIDI foot           *)
(* controller.  One loop() iteration drains the serial input (the line     *)
(* protocol SET / SAVE / LOAD / DUMP), samples and debounces the six       *)
(* switches, arbitrates the two chords and resolves pending presses.       *)
(* Characters are byte codes (naturals 0..255), strings are sequences of   *)
(* byte codes, the EEPROM is a function from addresses to bytes.           *)
(*                                                                         *)
(* Time.  The code reads millis() once per loop() and uses its timestamps  *)
(* only in the differences now - lastChangeMs[i] and now - pendingAt[i],   *)
(* compared with DEBOUNCE_MS and CHORD_WINDOW_MS.  The model keeps every   *)
(* timestamp relative to the end of the last loop() (which is time 0 of    *)
(* the next one): Rebase shifts the origin at the end of each loop() and   *)
(* keeps a timestamp older than its threshold at the threshold, where the  *)
(* code can no longer tell it from any older one.  The state space is      *)
(* finite and runs are unbounded.                                          *)
(***************************************************************************)
EXTENDS Integers, Sequences, FiniteSets, TLC

VARIABLES
  cfg,            \* Slot cfg[NUM_BANKS][NUM_SW]
  togState,       \* bool togState[NUM_BANKS][NUM_SW]
  currentBank,    \* uint8_t currentBank, 1..4
  eeprom,         \* the persistent bytes, addresses 0 .. EEPROM_SIZE-1
  lineBuf,        \* lineBuf[0 .. lineLen-1]; lineLen is Len(lineBuf)
  serialOut,      \* lines printed on Serial by the last loop() or setup()
  rawState,       \* bool rawState[NUM_SW]
  stableState,    \* bool stableState[NUM_SW]
  lastRaw,        \* bool lastRaw[NUM_SW]
  lastChangeMs,   \* unsigned long lastChangeMs[NUM_SW]
  pendingPress,   \* bool pendingPress[NUM_SW]
  pendingAt,      \* unsigned long pendingAt[NUM_SW]
  sentPress,      \* bool sentPress[NUM_SW]
  chord45Latched, \* bool chord45Latched
  chord56Latched, \* bool chord56Latched
  events,         \* history: the dispatches of the last loop(), in order
  hist            \* history: what the claims need to remember of the run

vars == <<cfg, togState, currentBank, eeprom, lineBuf, serialOut, rawState,
          stableState, lastRaw, lastChangeMs, pendingPress, pendingAt,
          sentPress, chord45Latched, chord56Latched, events, hist>>

----------------------------------------------------------------------------
(* Program constants *)

NUM_SW == 6
NUM_BANKS == 4
ACT_NONE == 0
ACT_CC == 1
ACT_PC == 2
ACT_BANK_UP == 3
ACT_BANK_DOWN == 4
ACT_CC_TOGGLE == 5
ACT_CC_ONE_SHOT == 6
DEBOUNCE_MS == 35
CHORD_WINDOW_MS == 120
SPLASH_MS == 500
LINEBUF_SIZE == 220
EEPROM_MAGIC_ADDR == 0
EEPROM_DATA_ADDR == 4
SLOT_SIZE == 9
\* the tokens applySetLine takes from a SET line
SET_TOKENS == 8
\* the marker and the 24 stored slots
EEPROM_SIZE == EEPROM_DATA_ADDR + NUM_BANKS * NUM_SW * SLOT_SIZE

\* 0x4D434646 as EEPROM.put stores it on the little-endian AVR
EEPROM_MAGIC == <<70, 70, 67, 77>>

\* byte codes of the characters the code names
NUL == 0
NL == 10
CR == 13
SPACE == 32
COMMA == 44
DASH == 45
UNDERSCORE == 95
ERASED == 255

Banks == 0 .. (NUM_BANKS - 1)
Switches == 0 .. (NUM_SW - 1)
Byte == 0 .. 255

\* "SET,", "SAVE", "LOAD", "DUMP" and the response lines, as byte codes
STR_SET == <<83, 69, 84, 44>>
STR_SAVE == <<83, 65, 86, 69>>
STR_LOAD == <<76, 79, 65, 68>>
STR_DUMP == <<68, 85, 77, 80>>
STR_ERR == <<69, 82, 82, 44>>
OK_SAVED == <<79, 75, 44, 83, 65, 86, 69, 68>>
OK_LOADED == <<79, 75, 44, 76, 79, 65, 68, 69, 68>>
OK_READY == <<79, 75, 44, 82, 69, 65, 68, 89>>
OK_SET == <<79, 75, 44, 83, 69, 84>>
OK_DUMP_DONE == <<79, 75, 44, 68, 85, 77, 80, 95, 68, 79, 78, 69>>
ERR_BAD_SET_FORMAT == STR_ERR \o <<66, 65, 68, 95, 83, 69, 84, 95, 70, 79, 82, 77, 65, 84>>
ERR_BAD_INDEX == STR_ERR \o <<66, 65, 68, 95, 73, 78, 68, 69, 88>>
ERR_NO_EEPROM_CONFIG == STR_ERR \o <<78, 79, 95, 69, 69, 80, 82, 79, 77, 95, 67, 79, 78, 70, 73, 71>>
ERR_UNKNOWN_CMD == STR_ERR \o <<85, 78, 75, 78, 79, 87, 78, 95, 67, 77, 68>>
ERR_LINE_TOO_LONG == STR_ERR \o <<76, 73, 78, 69, 95, 84, 79, 79, 95, 76, 79, 78, 71>>

----------------------------------------------------------------------------
(* Bounds of the model *)

\* the shortest time between two loop() iterations that the model draws
DtShort == 20
\* the number of 24-line SET scripts the serial input is drawn from
NumScripts == 2

----------------------------------------------------------------------------
(* C strings *)

\* index of the first c in s, 0 when there is none (strchr)
FirstIdx(s, c) ==
  IF \E i \in 1 .. Len(s) : s[i] = c
    THEN CHOOSE i \in 1 .. Len(s) : s[i] = c /\ \A j \in 1 .. (i - 1) : s[j] # c
    ELSE 0

\* a char buffer read as a C string: the bytes before the first NUL
CStr(buf) ==
  LET k == FirstIdx(buf, NUL)
  IN IF k = 0 THEN buf ELSE SubSeq(buf, 1, k - 1)

IsPrefix(p, s) == Len(p) <= Len(s) /\ SubSeq(s, 1, Len(p)) = p

RECURSIVE TrimLeading(_)
TrimLeading(s) ==
  IF s # <<>> /\ Head(s) = SPACE THEN TrimLeading(Tail(s)) ELSE s

RECURSIVE TrimTrailing(_)
TrimTrailing(s) ==
  IF s # <<>> /\ s[Len(s)] = SPACE THEN TrimTrailing(SubSeq(s, 1, Len(s) - 1)) ELSE s

\* the null pointer; no string equals it, bytes being naturals
NullPtr == <<-1>>

\* nextTok(p): the token cut at the first comma, trimmed, and the advanced p
nextTok(p) ==
  IF p = NullPtr THEN [tok |-> NullPtr, p |-> NullPtr]
  ELSE LET k == FirstIdx(p, COMMA)
           start == IF k > 0 THEN SubSeq(p, 1, k - 1) ELSE p
           rest == IF k > 0 THEN SubSeq(p, k + 1, Len(p)) ELSE NullPtr
       IN [tok |-> TrimTrailing(TrimLeading(start)), p |-> rest]

\* n successive nextTok calls: the n tokens, in order
RECURSIVE Toks(_, _)
Toks(p, n) ==
  IF n = 0 THEN <<>>
  ELSE LET r == nextTok(p) IN <<r.tok>> \o Toks(r.p, n - 1)

IsSpace(c) == c = SPACE \/ c \in 9 .. 13
IsDigit(c) == c \in 48 .. 57

RECURSIVE DigitsVal(_, _)
DigitsVal(s, acc) ==
  IF s = <<>> \/ ~IsDigit(Head(s)) THEN acc
  ELSE DigitsVal(Tail(s), acc * 10 + (Head(s) - 48))

RECURSIVE SkipSpace(_)
SkipSpace(s) == IF s # <<>> /\ IsSpace(Head(s)) THEN SkipSpace(Tail(s)) ELSE s

\* atoi: white space, an optional sign, the leading digits; 0 when there
\* are none.  The inputs of the model stay below 2^15, where the 16-bit
\* int of the target does not overflow.
atoi(str) ==
  LET s == SkipSpace(str)
  IN IF s = <<>> THEN 0
     ELSE IF Head(s) = 45 THEN 0 - DigitsVal(Tail(s), 0)
     ELSE IF Head(s) = 43 THEN DigitsVal(Tail(s), 0)
     ELSE DigitsVal(s, 0)

\* Serial.print of a non-negative integer: its decimal digits
RECURSIVE PrintDec(_)
PrintDec(n) ==
  IF n < 10 THEN <<48 + n>> ELSE PrintDec(n \div 10) \o <<48 + (n % 10)>>

----------------------------------------------------------------------------
(* Slots, the default configuration *)

Slot(label, type, ch, num, vPress, vRelease) ==
  [label |-> label, type |-> type, ch |-> ch, num |-> num,
   vPress |-> vPress, vRelease |-> vRelease]

\* setDefaultConfig: every slot "----" / NONE, SW5 = DOWN, SW6 = UP
DefaultSlot(s) ==
  IF s = 4 THEN Slot(<<68, 87, 78, SPACE>>, ACT_BANK_DOWN, 1, 0, 127, 0)
  ELSE IF s = 5 THEN Slot(<<85, 80, SPACE, SPACE>>, ACT_BANK_UP, 1, 0, 127, 0)
  ELSE Slot(<<DASH, DASH, DASH, DASH>>, ACT_NONE, 1, 0, 127, 0)

setDefaultConfig(m) ==
  [m EXCEPT !.cfg = [b \in Banks |-> [s \in Switches |-> DefaultSlot(s)]],
            !.togState = [b \in Banks |-> [s \in Switches |-> FALSE]]]

----------------------------------------------------------------------------
(* EEPROM layout *)

slotAddr(bankIdx, swIdx) == EEPROM_DATA_ADDR + (bankIdx * NUM_SW + swIdx) * SLOT_SIZE

\* the nine bytes eepromWriteSlot stores for a slot
SlotBytes(s) ==
  <<s.label[1], s.label[2], s.label[3], s.label[4],
    s.type, s.ch, s.num, s.vPress, s.vRelease>>

eepromWriteSlot(e, bankIdx, swIdx, s) ==
  LET a == slotAddr(bankIdx, swIdx)
      v == SlotBytes(s)
  IN [e EXCEPT ![a] = v[1], ![a + 1] = v[2], ![a + 2] = v[3], ![a + 3] = v[4],
               ![a + 4] = v[5], ![a + 5] = v[6], ![a + 6] = v[7],
               ![a + 7] = v[8], ![a + 8] = v[9]]

\* the label sanitization of eepromReadSlot
SaneLabelByte(c) == IF c = ERASED \/ c = NUL THEN SPACE ELSE c

\* the channel and type sanitization of eepromReadSlot
SaneCh(ch) == IF ch < 1 \/ ch > 16 THEN 1 ELSE ch
SaneType(type) == IF type > ACT_CC_ONE_SHOT THEN ACT_NONE ELSE type

\* the numeric fields eepromReadSlot takes as stored
ReadNum(v) == v

eepromReadSlot(e, bankIdx, swIdx) ==
  LET a == slotAddr(bankIdx, swIdx)
  IN Slot(<<SaneLabelByte(e[a]), SaneLabelByte(e[a + 1]),
            SaneLabelByte(e[a + 2]), SaneLabelByte(e[a + 3])>>,
          SaneType(e[a + 4]), SaneCh(e[a + 5]),
          ReadNum(e[a + 6]), ReadNum(e[a + 7]), ReadNum(e[a + 8]))

\* the slots lo .. hi in the order of the two nested loops, index
\* k = b * NUM_SW + s: the first half, then the second over what the first
\* has written (halved, and each half evaluated before the next, to keep the
\* evaluation shallow)
RECURSIVE WriteSlots(_, _, _, _)
WriteSlots(e, c, lo, hi) ==
  IF lo = hi
    THEN eepromWriteSlot(e, lo \div NUM_SW, lo % NUM_SW, c[lo \div NUM_SW][lo % NUM_SW])
    ELSE CHOOSE after \in
           {WriteSlots(written, c, (lo + hi) \div 2 + 1, hi) :
              written \in {WriteSlots(e, c, lo, (lo + hi) \div 2)}} : TRUE

saveAllToEEPROM(m) ==
  LET e1 == [m.eeprom EXCEPT ![EEPROM_MAGIC_ADDR] = EEPROM_MAGIC[1],
                              ![EEPROM_MAGIC_ADDR + 1] = EEPROM_MAGIC[2],
                              ![EEPROM_MAGIC_ADDR + 2] = EEPROM_MAGIC[3],
                              ![EEPROM_MAGIC_ADDR + 3] = EEPROM_MAGIC[4]]
  IN [m EXCEPT !.eeprom = WriteSlots(e1, m.cfg, 0, NUM_BANKS * NUM_SW - 1),
               !.serialOut = Append(@, OK_SAVED)]

MagicMatches(e) ==
  \A i \in 1 .. 4 : e[EEPROM_MAGIC_ADDR + i - 1] = EEPROM_MAGIC[i]

\* mutant: the slots are read before the marker is looked at
loadAllFromEEPROM_NoGuard(m) ==
  [ok |-> MagicMatches(m.eeprom),
   m |-> [m EXCEPT
            !.cfg = [b \in Banks |-> [s \in Switches |->
                       eepromReadSlot(m.eeprom, b, s)]],
            !.serialOut = IF MagicMatches(m.eeprom) THEN Append(@, OK_LOADED) ELSE @]]

\* loadAllFromEEPROM: [ok, m]; togState is not touched
loadAllFromEEPROM(m) ==
  IF ~MagicMatches(m.eeprom) THEN [ok |-> FALSE, m |-> m]
  ELSE [ok |-> TRUE,
        m |-> [m EXCEPT
                 !.cfg = [b \in Banks |-> [s \in Switches |->
                            eepromReadSlot(m.eeprom, b, s)]],
                 !.serialOut = Append(@, OK_LOADED)]]

----------------------------------------------------------------------------
(* Executing an action *)

NoMidi == [msg |-> "none", ch |-> 0, num |-> 0, val |-> 0]
MidiCC(ch, cc, val) == [msg |-> "CC", ch |-> ch, num |-> cc, val |-> val]
MidiPC(ch, pc) == [msg |-> "PC", ch |-> ch, num |-> pc, val |-> 0]

\* history: the presses dispatched on a CC_TOGGLE slot since the last
\* successful SET on it (or since startup): 0 none yet, 1 the first, 2 the
\* second, 3 a later odd one, 4 a later even one; -1 once a LOAD has
\* rewritten the slot
NextNth(n) == IF n = -1 THEN -1 ELSE IF n < 4 THEN n + 1 ELSE 3

\* one entry of the dispatch history: a handleSwitchEvent call (kind
\* "switch") or a chord's bank action (kind "chord45" / "chord56"), with the
\* bank and the stable states at the call and the MIDI message it sent
Event(kind, sw, pressed, m, midi) ==
  [kind |-> kind, sw |-> sw, pressed |-> pressed, bank |-> m.currentBank,
   stable |-> m.stableState, midi |-> midi,
   slot |-> IF sw \in Switches THEN m.cfg[m.currentBank - 1][sw] ELSE <<>>,
   nth |-> IF sw \in Switches /\ pressed
                /\ m.cfg[m.currentBank - 1][sw].type = ACT_CC_TOGGLE
             THEN NextNth(m.hist.presses[m.currentBank - 1][sw]) ELSE 0]

\* history: count the press dispatched on the active bank's slot of swIdx,
\* when it is a CC_TOGGLE slot
NotePress(m, swIdx, pressed) ==
  IF pressed /\ m.cfg[m.currentBank - 1][swIdx].type = ACT_CC_TOGGLE
    THEN [m EXCEPT !.hist.presses[m.currentBank - 1][swIdx] = NextNth(@)]
    ELSE m

\* showBankSplash blocks for SPLASH_MS
doBankUp(m) ==
  [m EXCEPT !.currentBank = IF @ + 1 > NUM_BANKS THEN 1 ELSE @ + 1,
            !.clock = @ + SPLASH_MS]

\* mutant: BankDown stops at bank 1
doBankDown_Stop(m) ==
  [m EXCEPT !.currentBank = IF @ <= 1 THEN 1 ELSE @ - 1,
            !.clock = @ + SPLASH_MS]

doBankDown(m) ==
  [m EXCEPT !.currentBank = IF @ <= 1 THEN NUM_BANKS ELSE @ - 1,
            !.clock = @ + SPLASH_MS]

\* the value a CC_TOGGLE press sends, given the toggle bit after the flip
ToggleVal(tog, vPress) == IF tog THEN vPress ELSE 0

handleSwitchEvent(m0, swIdx, pressed) ==
  LET m == NotePress(m0, swIdx, pressed)
      b == m.currentBank - 1
      s == m.cfg[b][swIdx]
      log(midi) == Append(m.events, Event("switch", swIdx, pressed, m0, midi))
  IN CASE s.type = ACT_NONE -> [m EXCEPT !.events = log(NoMidi)]
       [] s.type = ACT_BANK_UP ->
            IF pressed THEN doBankUp([m EXCEPT !.events = log(NoMidi)])
            ELSE [m EXCEPT !.events = log(NoMidi)]
       [] s.type = ACT_BANK_DOWN ->
            IF pressed THEN doBankDown([m EXCEPT !.events = log(NoMidi)])
            ELSE [m EXCEPT !.events = log(NoMidi)]
       [] s.type = ACT_PC ->
            [m EXCEPT !.events = log(IF pressed THEN MidiPC(s.ch, s.num) ELSE NoMidi)]
       [] s.type = ACT_CC ->
            [m EXCEPT !.events =
               log(MidiCC(s.ch, s.num, IF pressed THEN s.vPress ELSE s.vRelease))]
       [] s.type = ACT_CC_TOGGLE ->
            IF pressed
              THEN [m EXCEPT !.togState[b][swIdx] = ~@,
                             !.events = log(MidiCC(s.ch, s.num,
                                ToggleVal(~m.togState[b][swIdx], s.vPress)))]
              ELSE [m EXCEPT !.events = log(NoMidi)]
       [] s.type = ACT_CC_ONE_SHOT ->
            [m EXCEPT !.events =
               log(IF pressed THEN MidiCC(s.ch, s.num, s.vPress) ELSE NoMidi)]
       [] OTHER -> [m EXCEPT !.events = log(NoMidi)]

----------------------------------------------------------------------------
(* The serial protocol *)

\* dumpConfig: one "SET,..." line per slot, bank-major, then OK,DUMP_DONE
DumpLine(b, sw, s) ==
  STR_SET \o PrintDec(b + 1) \o <<COMMA>> \o PrintDec(sw + 1) \o <<COMMA>>
    \o CStr(s.label) \o <<COMMA>> \o PrintDec(s.type) \o <<COMMA>>
    \o PrintDec(s.ch) \o <<COMMA>> \o PrintDec(s.num) \o <<COMMA>>
    \o PrintDec(s.vPress) \o <<COMMA>> \o PrintDec(s.vRelease)

DumpLines(c) ==
  [k \in 1 .. (NUM_BANKS * NUM_SW) |->
     DumpLine((k - 1) \div NUM_SW, (k - 1) % NUM_SW,
              c[(k - 1) \div NUM_SW][(k - 1) % NUM_SW])]

dumpConfig(m) ==
  [m EXCEPT !.serialOut = @ \o DumpLines(m.cfg) \o <<OK_DUMP_DONE>>,
            !.hist.dump = [lines |-> DumpLines(m.cfg), phase |-> m.hist.phase],
            !.hist.capture = [lines |-> DumpLines(m.cfg), cfg |-> m.cfg]]

\* the clamps of applySetLine
ClampType(type) == IF type < 0 \/ type > ACT_CC_ONE_SHOT THEN ACT_NONE ELSE type
ClampCh(ch) == IF ch < 1 THEN 1 ELSE IF ch > 16 THEN 16 ELSE ch
Clamp127(v) == IF v < 0 THEN 0 ELSE IF v > 127 THEN 127 ELSE v

\* label: '_' -> space, the first 4 chars, padded with spaces
SetLabelChar(tLab, i) ==
  LET c == IF i <= Len(tLab) THEN tLab[i] ELSE SPACE
  IN IF c = UNDERSCORE THEN SPACE ELSE c

IndexOk(bank, sw) == ~(bank < 1 \/ bank > NUM_BANKS \/ sw < 1 \/ sw > NUM_SW)

\* the comma-separated fields that follow the keyword of a SET line
NumFields(line) ==
  1 + Cardinality({i \in 5 .. Len(line) : line[i] = COMMA})

\* history: a successful SET on slot [b][s], made by line
NoteSet(m, b, s, line) ==
  [m EXCEPT !.hist.setSlots = @ \cup {<<b, s>>},
            !.hist.set = [fields |-> NumFields(line), applied |-> TRUE],
            !.hist.presses[b][s] = 0,
            !.hist.setFoundTog[b][s] = m.hist.togBefore[b][s],
            !.hist.phase = IF @ \in {"cycled", "loaded"} THEN "none" ELSE @]

\* mutant: SET leaves the toggle bit as it was
ToggleAfterSet_Keep(old) == old

\* the toggle bit applySetLine leaves on the slot it has written
ToggleAfterSet(old) == FALSE

applySetLine(m, line) ==
  LET t == Toks(SubSeq(line, 5, Len(line)), SET_TOKENS)
  IN IF \E i \in 1 .. SET_TOKENS : t[i] = NullPtr
       THEN [m EXCEPT !.serialOut = Append(@, ERR_BAD_SET_FORMAT)]
     ELSE
       LET bank == atoi(t[1])
           sw == atoi(t[2])
           tLab == t[3]
           b == bank - 1
           s == sw - 1
       IN IF ~IndexOk(bank, sw)
            THEN [m EXCEPT !.serialOut = Append(@, ERR_BAD_INDEX)]
          ELSE NoteSet(
            [m EXCEPT
               !.cfg[b][s] = Slot(<<SetLabelChar(tLab, 1), SetLabelChar(tLab, 2),
                                    SetLabelChar(tLab, 3), SetLabelChar(tLab, 4)>>,
                                  ClampType(atoi(t[4])), ClampCh(atoi(t[5])),
                                  Clamp127(atoi(t[6])), Clamp127(atoi(t[7])),
                                  Clamp127(atoi(t[8]))),
               !.togState[b][s] = ToggleAfterSet(@),
               !.serialOut = Append(@, OK_SET)], b, s, line)

\* history: a SAVE; the grid is remembered when SET has configured all of it
NoteSave(m) ==
  [m EXCEPT !.hist.saved = IF m.hist.setSlots = Banks \X Switches
                             THEN m.cfg ELSE <<>>,
            !.hist.phase = IF m.hist.setSlots = Banks \X Switches
                             THEN "saved" ELSE "none"]

\* history: a successful LOAD
NoteLoad(m) ==
  [m EXCEPT !.hist.phase = IF @ = "cycled" THEN "loaded" ELSE @,
            !.hist.setSlots = {},
            !.hist.presses = [b \in Banks |-> [s \in Switches |-> -1]]]

processSerialLine(m, line) ==
  IF line = <<>> THEN m
  ELSE IF IsPrefix(STR_SET, line) THEN applySetLine(m, line)
  ELSE IF line = STR_SAVE THEN NoteSave(saveAllToEEPROM(m))
  ELSE IF line = STR_LOAD
    THEN LET r == loadAllFromEEPROM(m)
         IN IF ~r.ok THEN [r.m EXCEPT !.serialOut = Append(@, ERR_NO_EEPROM_CONFIG)]
            ELSE NoteLoad(r.m)
  ELSE IF line = STR_DUMP THEN dumpConfig(m)
  ELSE [m EXCEPT !.serialOut = Append(@, ERR_UNKNOWN_CMD)]

\* history: the line that ends here is handed to processSerialLine; it is
\* dispatched as a command unless it is empty
NoteLine(m, line) ==
  [m EXCEPT !.hist.long = [over |-> FALSE,
                           dispatched |-> @.dispatched \/ (@.over /\ line # <<>>)]]

\* one character of the receive loop
ReceiveChar(m, c) ==
  IF c = NL
    THEN LET buf == m.lineBuf
             line == IF buf # <<>> /\ buf[Len(buf)] = CR
                       THEN SubSeq(buf, 1, Len(buf) - 1) ELSE buf
         IN [processSerialLine(NoteLine(m, CStr(line)), CStr(line))
               EXCEPT !.lineBuf = <<>>]
  ELSE IF Len(m.lineBuf) < LINEBUF_SIZE - 1
    THEN [m EXCEPT !.lineBuf = Append(@, c)]
  ELSE [m EXCEPT !.lineBuf = <<>>, !.serialOut = Append(@, ERR_LINE_TOO_LONG),
                 !.hist.long.over = TRUE]

\* the characters chars[lo .. hi] in order: the first half, then the second
\* from the machine the first half leaves (halved, and each half evaluated
\* before the next, to keep the evaluation shallow)
RECURSIVE ReceiveRange(_, _, _, _)
ReceiveRange(m, chars, lo, hi) ==
  IF lo = hi
    THEN ReceiveChar(m, chars[lo])
    ELSE CHOOSE after \in
           {ReceiveRange(half, chars, (lo + hi) \div 2 + 1, hi) :
              half \in {ReceiveRange(m, chars, lo, (lo + hi) \div 2)}} : TRUE

\* while(Serial.available()): every character that has arrived, in order
SerialReceive(m, chars) ==
  IF chars = <<>> THEN m ELSE ReceiveRange(m, chars, 1, Len(chars))

----------------------------------------------------------------------------
(* Debounce, chords, pending presses *)

\* mutant: SW4 is handled at once, like SW1..SW3
IsChordSwitch_From4(i) == i >= 4 /\ i <= 5

\* SW4..SW6 (indices 3..5) hold their press back for the chord window
IsChordSwitch(i) == i >= 3 /\ i <= 5

\* mutant: no settle time
Settled_Immediate(now, lastChange) == TRUE

\* the settle test of the debounce pass
Settled(now, lastChange) == (now - lastChange) >= DEBOUNCE_MS

\* mutant: the chord window never ends
WindowElapsed_Never(now, at) == FALSE

\* the chord-window test of the pending pass
WindowElapsed(now, at) == (now - at) >= CHORD_WINDOW_MS

\* mutant: the release of a committed press leaves sentPress set
ReleaseChordSwitch_KeepSent(m, i) ==
  IF m.sentPress[i]
    THEN handleSwitchEvent(m, i, FALSE)
  ELSE IF m.pendingPress[i]
    THEN handleSwitchEvent(
           handleSwitchEvent([m EXCEPT !.pendingPress[i] = FALSE], i, TRUE),
           i, FALSE)
  ELSE m

\* mutant: the tap sends its press and forgets the release
ReleaseChordSwitch_BarePress(m, i) ==
  IF m.sentPress[i]
    THEN [handleSwitchEvent(m, i, FALSE) EXCEPT !.sentPress[i] = FALSE]
  ELSE IF m.pendingPress[i]
    THEN handleSwitchEvent([m EXCEPT !.pendingPress[i] = FALSE], i, TRUE)
  ELSE m

\* a debounced release of SW4..SW6
ReleaseChordSwitch(m, i) ==
  IF m.sentPress[i]
    THEN [handleSwitchEvent(m, i, FALSE) EXCEPT !.sentPress[i] = FALSE]
  ELSE IF m.pendingPress[i]
    THEN handleSwitchEvent(
           handleSwitchEvent([m EXCEPT !.pendingPress[i] = FALSE], i, TRUE),
           i, FALSE)
  ELSE m

\* the body of the debounce loop for switch i, sampled as raw at time now
DebounceStep(m, i, raw, now) ==
  LET m1 == IF raw # m.lastRaw[i]
              THEN [m EXCEPT !.rawState[i] = raw, !.lastRaw[i] = raw,
                             !.lastChangeMs[i] = now]
              ELSE [m EXCEPT !.rawState[i] = raw]
  IN IF Settled(now, m1.lastChangeMs[i]) /\ m1.stableState[i] # raw
       THEN LET m2 == [m1 EXCEPT !.stableState[i] = raw]
            IN IF IsChordSwitch(i)
                 THEN IF raw
                        THEN [m2 EXCEPT !.pendingPress[i] = TRUE,
                                        !.pendingAt[i] = now]
                        ELSE ReleaseChordSwitch(m2, i)
                 ELSE handleSwitchEvent(m2, i, raw)
       ELSE m1

\* the debounce loop from switch i on (each step evaluated before the next)
RECURSIVE DebouncePass(_, _, _, _)
DebouncePass(m, i, raws, now) ==
  IF i = NUM_SW THEN m
  ELSE CHOOSE after \in {DebouncePass(step, i + 1, raws, now) :
                           step \in {DebounceStep(m, i, raws[i], now)}} : TRUE

Chord45(stable) == stable[3] /\ stable[4]
Chord56(stable) == stable[4] /\ stable[5]
AnyChord(stable) == Chord45(stable) \/ Chord56(stable)

\* mutant: the latch is ignored
ChordFires_NoLatch(chord, latched) == chord

\* a chord's bank action runs on the edge only
ChordFires(chord, latched) == chord /\ ~latched

\* mutant: a firing chord forgets the pending presses only
ClearPending_KeepSent(m) ==
  [m EXCEPT !.pendingPress = [i \in Switches |-> IF IsChordSwitch(i) THEN FALSE ELSE @[i]]]

\* the pending / sent bookkeeping a firing chord discards
ClearPending(m) ==
  [m EXCEPT !.pendingPress = [i \in Switches |-> IF IsChordSwitch(i) THEN FALSE ELSE @[i]],
            !.sentPress = [i \in Switches |-> IF IsChordSwitch(i) THEN FALSE ELSE @[i]]]

ChordPass(m) ==
  LET c45 == Chord45(m.stableState)
      c56 == Chord56(m.stableState)
      m1 == IF c45
              THEN IF ChordFires(c45, m.chord45Latched)
                     THEN LET c == ClearPending([m EXCEPT !.chord45Latched = TRUE])
                          IN doBankDown([c EXCEPT !.events =
                               Append(@, Event("chord45", -1, TRUE, c, NoMidi))])
                     ELSE m
              ELSE [m EXCEPT !.chord45Latched = FALSE]
  IN IF c56
       THEN IF ChordFires(c56, m1.chord56Latched)
              THEN LET c == ClearPending([m1 EXCEPT !.chord56Latched = TRUE])
                   IN doBankUp([c EXCEPT !.events =
                        Append(@, Event("chord56", -1, TRUE, c, NoMidi))])
              ELSE m1
       ELSE [m1 EXCEPT !.chord56Latched = FALSE]

\* mutant: the committed press is not remembered
CommitPending_NoSent(m, i) ==
  handleSwitchEvent([m EXCEPT !.pendingPress[i] = FALSE], i, TRUE)

\* a pending press whose window has elapsed becomes a sent press
CommitPending(m, i) ==
  [handleSwitchEvent([m EXCEPT !.pendingPress[i] = FALSE], i, TRUE)
     EXCEPT !.sentPress[i] = TRUE]

RECURSIVE PendingPass(_, _, _)
PendingPass(m, i, now) ==
  IF i > 5 THEN m
  ELSE CHOOSE after \in {PendingPass(step, i + 1, now) :
                           step \in {IF m.pendingPress[i]
                                        /\ WindowElapsed(now, m.pendingAt[i])
                                       THEN CommitPending(m, i) ELSE m}} : TRUE

\* the switch half of loop(), with millis() = now
PollSwitches(m, raws, now) ==
  CHOOSE after \in
    {IF AnyChord(c.stableState) THEN c ELSE PendingPass(c, 3, now) :
       c \in {ChordPass(d) :
                d \in {DebouncePass([m EXCEPT !.clock = now], 0, raws, now)}}} : TRUE

----------------------------------------------------------------------------
(* History kept for the claims; the program reads none of it *)

\* now: the millis() read of the last loop(), relative to its end (kept at
\*   -CHORD_WINDOW_MS when older: the durations below are full by then)
\* sample, sampleFor: the last sample of each switch and for how long the
\*   loops have seen that level, up to DEBOUNCE_MS
\* heldFor: for SW4..SW6 while stable-pressed after a debounced press, the
\*   time from that press to the last millis() read, up to CHORD_WINDOW_MS;
\*   -1 otherwise
\* chord: whether a chord condition has held at a loop since that press
\* sw4Ever: whether stableState[4] has been true since startup
\* fired45, fired56: the chord has fired and its pair has stayed joined
\* moved: a loop() since startup has changed some stableState[i]
\* tick: the parity of the loop() calls, where they are counted (SpecLive)
\* disarmed: for SW4..SW6, the switch was stable-pressed when a chord fired
\*   and has been stable-pressed at the end of every loop() since
\* setSlots: the slots SET has written since startup or the last LOAD
\* saved, phase: the grid at the last SAVE made with every slot in setSlots,
\*   and how far the round trip SAVE, power cycle, LOAD has come since
\* dump: the lines of a DUMP of the last loop(), and the phase it ran in
\* long: over, the line being received has overflowed lineBuf; dispatched,
\*   the last loop() handed characters of such a line to a command
\* capture: the lines of a DUMP of the last loop() and the grid it dumped,
\*   kept over a power cycle that follows it
\* replayOf: the grid whose captured DUMP lines the last loop() received
\* set: whether the last loop() applied a SET line, and the number of
\*   fields of the last one it applied
\* presses: see NextNth
\* togBefore, setFoundTog: the toggle bits before the last loop(), and the
\*   toggle bit the last successful SET on a slot found there
HistInit ==
  [now |-> 0,
   sample |-> [i \in Switches |-> FALSE],
   sampleFor |-> [i \in Switches |-> 0],
   heldFor |-> [i \in Switches |-> -1],
   chord |-> [i \in Switches |-> FALSE],
   sw4Ever |-> FALSE,
   fired45 |-> FALSE,
   fired56 |-> FALSE,
   tick |-> FALSE,
   moved |-> FALSE,
   disarmed |-> [i \in Switches |-> FALSE],
   setSlots |-> {},
   saved |-> <<>>,
   phase |-> "none",
   dump |-> [lines |-> <<>>, phase |-> "none"],
   capture |-> [lines |-> <<>>, cfg |-> <<>>],
   replayOf |-> <<>>,
   set |-> [fields |-> 0, applied |-> FALSE],
   long |-> [over |-> FALSE, dispatched |-> FALSE],
   presses |-> [b \in Banks |-> [s \in Switches |-> 0]],
   setFoundTog |-> [b \in Banks |-> [s \in Switches |-> FALSE]],
   togBefore |-> [b \in Banks |-> [s \in Switches |-> FALSE]]]

Min(a, b) == IF a < b THEN a ELSE b
Max(a, b) == IF a > b THEN a ELSE b

NumFires(evs, kind) == Cardinality({k \in 1 .. Len(evs) : evs[k].kind = kind})

\* the history after a loop() that took state pre to state post
HistAfterLoop(pre, post, raws, now) ==
  [post.hist EXCEPT
     !.now = Max(now - post.clock, 0 - CHORD_WINDOW_MS),
     !.sample = raws,
     !.sampleFor = [i \in Switches |->
                      IF raws[i] # pre.hist.sample[i] THEN 0
                      ELSE Min(DEBOUNCE_MS, @[i] + (now - pre.hist.now))],
     !.heldFor = [i \in Switches |->
                    IF ~IsChordSwitch(i) \/ ~post.stableState[i] THEN
                      IF pre.stableState[i] /\ @[i] >= 0
                        THEN Min(CHORD_WINDOW_MS, @[i] + (now - pre.hist.now))
                        ELSE -1
                    ELSE IF ~pre.stableState[i] THEN 0
                    ELSE IF @[i] < 0 THEN -1
                    ELSE Min(CHORD_WINDOW_MS, @[i] + (now - pre.hist.now))],
     !.chord = [i \in Switches |->
                  IF ~IsChordSwitch(i) THEN FALSE
                  ELSE IF ~post.stableState[i] THEN pre.stableState[i] /\ @[i]
                  ELSE IF ~pre.stableState[i] THEN AnyChord(post.stableState)
                  ELSE @[i] \/ AnyChord(post.stableState)],
     !.sw4Ever = @ \/ post.stableState[4],
     !.moved = @ \/ post.stableState # pre.stableState,
     !.fired45 = Chord45(post.stableState)
                   /\ (@ \/ NumFires(post.events, "chord45") > 0),
     !.fired56 = Chord56(post.stableState)
                   /\ (@ \/ NumFires(post.events, "chord56") > 0),
     !.disarmed = [i \in Switches |->
                     /\ IsChordSwitch(i) /\ post.stableState[i]
                     /\ \/ @[i]
                        \/ \E k \in 1 .. Len(post.events) :
                             /\ post.events[k].kind \in {"chord45", "chord56"}
                             /\ post.events[k].stable[i]],
     !.togBefore = post.togState]

----------------------------------------------------------------------------
(* setup() and loop() *)

\* the state as a record
Cur ==
  [cfg |-> cfg, togState |-> togState, currentBank |-> currentBank,
   eeprom |-> eeprom, lineBuf |-> lineBuf, serialOut |-> serialOut,
   rawState |-> rawState, stableState |-> stableState, lastRaw |-> lastRaw,
   lastChangeMs |-> lastChangeMs, pendingPress |-> pendingPress,
   pendingAt |-> pendingAt, sentPress |-> sentPress,
   chord45Latched |-> chord45Latched, chord56Latched |-> chord56Latched,
   clock |-> 0, events |-> events, hist |-> hist]

\* the globals as initialized at power-up, over EEPROM e
PowerUp(e, h) ==
  [cfg |-> [b \in Banks |-> [s \in Switches |-> DefaultSlot(s)]],
   togState |-> [b \in Banks |-> [s \in Switches |-> FALSE]],
   currentBank |-> 1, eeprom |-> e, lineBuf |-> <<>>, serialOut |-> <<>>,
   rawState |-> [i \in Switches |-> FALSE],
   stableState |-> [i \in Switches |-> FALSE],
   lastRaw |-> [i \in Switches |-> FALSE],
   lastChangeMs |-> [i \in Switches |-> 0],
   pendingPress |-> [i \in Switches |-> FALSE],
   pendingAt |-> [i \in Switches |-> 0 - CHORD_WINDOW_MS],
   sentPress |-> [i \in Switches |-> FALSE],
   chord45Latched |-> FALSE, chord56Latched |-> FALSE,
   clock |-> 0, events |-> <<>>, hist |-> h]

\* setup(): the first sample becomes raw, stable and lastRaw; defaults, then
\* the stored configuration when there is one
setup(e, raws, h) ==
  LET p == PowerUp(e, h)
      s == [p EXCEPT !.rawState = raws, !.stableState = raws, !.lastRaw = raws,
                     !.lastChangeMs = [i \in Switches |-> p.clock],
                     !.hist.now = p.clock,
                     !.hist.sample = raws,
                     !.hist.sw4Ever = raws[4]]
      l == loadAllFromEEPROM(setDefaultConfig(s)).m
  IN [l EXCEPT !.serialOut = Append(@, OK_READY)]

\* the time origin moves to the end of the loop(): m.clock, the millis() read
\* plus the splash delays; older timestamps stay at their thresholds, and so
\* does a pendingAt[i] that the code overwrites before it reads it again
\* (pendingPress[i] false)
Rebase(m) ==
  [m EXCEPT
     !.lastChangeMs = [i \in Switches |-> Max(@[i] - m.clock, 0 - DEBOUNCE_MS)],
     !.pendingAt = [i \in Switches |->
                      IF m.pendingPress[i]
                        THEN Max(@[i] - m.clock, 0 - CHORD_WINDOW_MS)
                        ELSE 0 - CHORD_WINDOW_MS],
     !.clock = 0]

\* one loop(): the serial input that has arrived, then the switches
loop(m, chars, raws, now) ==
  CHOOSE after \in
    {Rebase([q EXCEPT !.hist = HistAfterLoop(m, q, raws, now)]) :
       q \in {PollSwitches(s, raws, now) :
                s \in {SerialReceive(
                         [m EXCEPT !.serialOut = <<>>, !.events = <<>>,
                                   !.hist.dump = [lines |-> <<>>, phase |-> "none"],
                                   !.hist.capture = [lines |-> <<>>, cfg |-> <<>>],
                                   !.hist.replayOf = <<>>,
                                   !.hist.set = [fields |-> 0, applied |-> FALSE],
                                   !.hist.long.dispatched = FALSE],
                         chars)}}} : TRUE

\* history across a power cycle: only the round-trip bookkeeping survives
HistAfterPowerCycle(h) ==
  [HistInit EXCEPT !.saved = h.saved,
                   !.capture = h.capture,
                   !.phase = IF h.phase = "saved" THEN "cycled" ELSE "none"]

IsState(m) ==
  /\ cfg = m.cfg /\ togState = m.togState /\ currentBank = m.currentBank
  /\ eeprom = m.eeprom /\ lineBuf = m.lineBuf /\ serialOut = m.serialOut
  /\ rawState = m.rawState /\ stableState = m.stableState
  /\ lastRaw = m.lastRaw /\ lastChangeMs = m.lastChangeMs
  /\ pendingPress = m.pendingPress /\ pendingAt = m.pendingAt
  /\ sentPress = m.sentPress /\ chord45Latched = m.chord45Latched
  /\ chord56Latched = m.chord56Latched
  /\ events = m.events /\ hist = m.hist

Becomes(m) ==
  /\ cfg' = m.cfg /\ togState' = m.togState /\ currentBank' = m.currentBank
  /\ eeprom' = m.eeprom /\ lineBuf' = m.lineBuf /\ serialOut' = m.serialOut
  /\ rawState' = m.rawState /\ stableState' = m.stableState
  /\ lastRaw' = m.lastRaw /\ lastChangeMs' = m.lastChangeMs
  /\ pendingPress' = m.pendingPress /\ pendingAt' = m.pendingAt
  /\ sentPress' = m.sentPress /\ chord45Latched' = m.chord45Latched
  /\ chord56Latched' = m.chord56Latched
  /\ events' = m.events /\ hist' = m.hist

----------------------------------------------------------------------------
(* Inputs *)

AllOpen == [i \in Switches |-> FALSE]

\* samples in which only the switches of S may be closed
RawsOver(S) ==
  {[i \in Switches |-> i \in c] : c \in SUBSET S}

\* an erased EEPROM
ErasedEeprom == [a \in 0 .. (EEPROM_SIZE - 1) |-> ERASED]

\* the times between two loop() iterations
Dts == {DEBOUNCE_MS, CHORD_WINDOW_MS}
DtsShort == {DtShort, DEBOUNCE_MS}

----------------------------------------------------------------------------
(* The switch machine: SW4..SW6 move, no serial input, default grid *)

Init ==
  \E raws \in RawsOver({3, 4, 5}) :
    \E m \in {setup(ErasedEeprom, raws, HistInit)} : IsState(m)

Loop ==
  \E raws \in RawsOver({3, 4, 5}), dt \in Dts :
    \E m \in {loop(Cur, <<>>, raws, dt)} : Becomes(m)

Next == Loop

Spec == Init /\ [][Next]_vars

----------------------------------------------------------------------------
(* Debounce alone: SW1..SW3 move, with loops closer than the settle time *)

InitDeb ==
  \E raws \in RawsOver({0, 1, 2}) :
    \E m \in {setup(ErasedEeprom, raws, HistInit)} : IsState(m)

LoopDeb ==
  \E raws \in RawsOver({0, 1, 2}), dt \in DtsShort :
    \E m \in {loop(Cur, <<>>, raws, dt)} : Becomes(m)

NextDeb == LoopDeb

SpecDeb == InitDeb /\ [][NextDeb]_vars

\* the switch machine with loop() called again and again, as the Arduino
\* core does, every DEBOUNCE_MS.  Each call flips hist.tick, so that a call
\* which finds nothing to do is a step all the same, and "loop() is called
\* without end" reads: the tick is set, and is clear, infinitely often (weak
\* fairness of LoopLive, which is enabled in every state).
LoopLive ==
  \E raws \in RawsOver({3, 4, 5}) :
    \E m \in {loop(Cur, <<>>, raws, DEBOUNCE_MS)} :
      Becomes([m EXCEPT !.hist.tick = ~hist.tick])

NextLive == LoopLive

SpecLive ==
  Init /\ [][NextLive]_vars /\ []<>(hist.tick) /\ []<>(~hist.tick)

----------------------------------------------------------------------------
(* Reading the dispatch history *)

\* the handleSwitchEvent calls for switch i, in order: TRUE a press
RECURSIVE SwPressed(_, _)
SwPressed(evs, i) ==
  IF evs = <<>> THEN <<>>
  ELSE IF Head(evs).kind = "switch" /\ Head(evs).sw = i
    THEN <<Head(evs).pressed>> \o SwPressed(Tail(evs), i)
  ELSE SwPressed(Tail(evs), i)

\* switch i's press and release are adjacent entries
BackToBack(evs, i) ==
  \E k \in 1 .. (Len(evs) - 1) :
    /\ evs[k].kind = "switch" /\ evs[k].sw = i /\ evs[k].pressed
    /\ evs[k + 1].kind = "switch" /\ evs[k + 1].sw = i /\ ~evs[k + 1].pressed

\* the active bank after entry k of a loop's history that ended in bank final
BankAfter(evs, k, final) == IF k < Len(evs) THEN evs[k + 1].bank ELSE final

BankDownOf(b) == IF b = 1 THEN NUM_BANKS ELSE b - 1
BankUpOf(b) == IF b = NUM_BANKS THEN 1 ELSE b + 1

----------------------------------------------------------------------------
(* Claims *)

\* C1: whenever handleSwitchEvent is called for switch 3 or 4 (press or
\* release), switches 3 and 4 are not both stable-pressed at that call.
C1_NoIndividualWhile34 ==
  \A k \in 1 .. Len(events) :
    (events[k].kind = "switch" /\ events[k].sw \in {3, 4})
      => ~Chord45(events[k].stable)

\* C1 witness: 3 and 4, each after a debounced press, have been held
\* together past the chord window, and the loop dispatched nothing.
C1_Witness ==
  /\ stableState[3] /\ stableState[4]
  /\ hist.heldFor[3] = CHORD_WINDOW_MS /\ hist.heldFor[4] = CHORD_WINDOW_MS
  /\ events = <<>>

C2Pair(joinedBefore, joinedAfter, firedHeld, kind, evs, final) ==
  /\ (~joinedBefore /\ joinedAfter) => NumFires(evs, kind) = 1
  /\ (firedHeld /\ joinedAfter) => NumFires(evs, kind) = 0
  /\ ~joinedAfter => NumFires(evs, kind) = 0
  /\ \A k \in 1 .. Len(evs) :
       /\ evs[k].kind = "chord45" => BankAfter(evs, k, final) = BankDownOf(evs[k].bank)
       /\ evs[k].kind = "chord56" => BankAfter(evs, k, final) = BankUpOf(evs[k].bank)

\* C2: in a loop in which a pair's stable states become both true the
\* chord's bank action (BankDown for 3+4, BankUp for 4+5) fires exactly
\* once; once it has fired it does not fire again while every loop finds the
\* pair joined; and it never fires in a loop that leaves the pair not joined.
C2_ChordEdgeLatched ==
  [][/\ C2Pair(Chord45(stableState), Chord45(stableState'), hist.fired45,
               "chord45", events', currentBank')
     /\ C2Pair(Chord56(stableState), Chord56(stableState'), hist.fired56,
               "chord56", events', currentBank')]_vars

\* C2 witness: the 3+4 chord has fired, a later loop found the pair still
\* joined, and nothing was dispatched in it.
C2_Witness ==
  /\ hist.fired45 /\ Chord45(stableState) /\ chord45Latched
  /\ events = <<>>

\* C3: whenever handleSwitchEvent is called for switch 3, 4 or 5, no chord
\* condition (3 and 4, or 4 and 5, both stable-pressed) is true at that call.
C3_NoIndividualWhileAnyChord ==
  \A k \in 1 .. Len(events) :
    (events[k].kind = "switch" /\ events[k].sw \in {3, 4, 5})
      => ~AnyChord(events[k].stable)

C4Switch(i) ==
  LET evs == SwPressed(events', i)
  IN /\ (/\ stableState[i] /\ ~stableState'[i]
         /\ hist.heldFor[i] >= 0 /\ hist'.heldFor[i] < CHORD_WINDOW_MS
         /\ ~hist.chord[i])
          => (evs = <<TRUE, FALSE>> /\ BackToBack(events', i))
     /\ (/\ stableState'[i]
         /\ hist'.heldFor[i] >= 0 /\ hist'.heldFor[i] < CHORD_WINDOW_MS)
          => evs = <<>>

\* C4: for i in 3..5, a debounced release that comes less than
\* CHORD_WINDOW_MS after the debounced press, no chord condition having held
\* at a loop in between, dispatches exactly a press and then a release for
\* i, adjacent, in that loop; and no loop dispatches anything for i while i
\* is held and the window has not elapsed.
C4_TapWithinWindow == [][\A i \in {3, 4, 5} : C4Switch(i)]_vars

\* C4 witness: a loop has just debounced the release of a switch held for
\* less than the window with no chord, and dispatched its press and release.
C4_Witness ==
  \E i \in {3, 4, 5} :
    /\ ~stableState[i] /\ hist.heldFor[i] >= 0
    /\ hist.heldFor[i] < CHORD_WINDOW_MS /\ ~hist.chord[i]
    /\ SwPressed(events, i) = <<TRUE, FALSE>>

C5Switch(i) ==
  LET evs == SwPressed(events', i)
  IN /\ (/\ stableState[i] /\ stableState'[i]
         /\ hist.heldFor[i] >= 0 /\ hist.heldFor[i] < CHORD_WINDOW_MS
         /\ hist'.heldFor[i] = CHORD_WINDOW_MS)
          => evs = <<TRUE>>
     /\ (stableState[i] /\ stableState'[i] /\ hist.heldFor[i] = CHORD_WINDOW_MS)
          => evs = <<>>
     /\ (stableState[i] /\ ~stableState'[i] /\ hist.heldFor[i] = CHORD_WINDOW_MS)
          => evs = <<FALSE>>

\* C5: for i = 3 or 5 with switch 4 never stable-pressed: the first loop that
\* finds i still held CHORD_WINDOW_MS or more after its debounced press
\* dispatches exactly one press for i, the later loops that find it held
\* dispatch nothing for i, and the loop that debounces its release
\* dispatches exactly one release for i.
C5_HeldPastWindow ==
  [][\A i \in {3, 5} : ~hist'.sw4Ever => C5Switch(i)]_vars

\* C5 witness: switch 4 was never pressed, and a loop has just dispatched the
\* one release of a switch whose press had been committed.
C5_Witness ==
  \E i \in {3, 5} :
    /\ ~hist.sw4Ever /\ ~stableState[i]
    /\ hist.heldFor[i] = CHORD_WINDOW_MS
    /\ ~pendingPress[i] /\ ~sentPress[i]
    /\ SwPressed(events, i) = <<FALSE>>

C6Switch(i) ==
  LET evs == SwPressed(events', i)
      settled == hist'.sampleFor[i] >= DEBOUNCE_MS
  IN /\ evs = IF stableState[i] # hist'.sample[i] /\ settled
                THEN <<hist'.sample[i]>> ELSE <<>>
     /\ evs # <<>> => stableState'[i] = hist'.sample[i]
     /\ evs = <<>> => stableState'[i] = stableState[i]

\* C6: for i in 0..2, a loop dispatches for i exactly when the sampled level
\* differs from the stable state and the loops have seen that level
\* unchanged for DEBOUNCE_MS or more; it is then one dispatch, of that level,
\* which becomes the stable state (so the edge is dispatched once); in every
\* other loop, flickers included, nothing is dispatched for i and the stable
\* state stays.
C6_DebounceOnce == [][\A i \in {0, 1, 2} : C6Switch(i)]_vars

\* C6 witness: a level seen unchanged for the settle time has just been
\* dispatched, after a flicker of another switch that is still unsettled.
C6_Witness ==
  \E i, j \in {0, 1, 2} :
    /\ Len(SwPressed(events, i)) = 1
    /\ hist.sampleFor[i] = DEBOUNCE_MS /\ stableState[i] = hist.sample[i]
    /\ hist.sample[j] # stableState[j] /\ hist.sampleFor[j] < DEBOUNCE_MS

----------------------------------------------------------------------------
(* Serial input *)

\* a number as the host writes it
Num(n) == IF n < 0 THEN <<DASH>> \o PrintDec(0 - n) ELSE PrintDec(n)

SetLine(bank, sw, lab, type, ch, num, vp, vr) ==
  STR_SET \o Num(bank) \o <<COMMA>> \o Num(sw) \o <<COMMA>> \o lab
    \o <<COMMA>> \o Num(type) \o <<COMMA>> \o Num(ch) \o <<COMMA>> \o Num(num)
    \o <<COMMA>> \o Num(vp) \o <<COMMA>> \o Num(vr) \o <<NL>>

\* script k configures all 24 slots, each with its own label and numbers;
\* the labels of script 2 hold the byte 0xFF in one slot, those of script 1
\* an underscore in every slot
ScriptLabel(k, b, s) ==
  IF k = 2 /\ b = 1 /\ s = 2 THEN <<76, ERASED, 49, 50>>
  ELSE <<65 + b, 49 + s, UNDERSCORE, 48 + k>>

ScriptLine(k, b, s) ==
  LET x == b * NUM_SW + s
  IN SetLine(b + 1, s + 1, ScriptLabel(k, b, s), (x + k) % 7, 1 + ((x + k) % 16),
             (17 * x + k) % 128, (127 - 5 * x + k) % 128, (3 * x + k) % 128)

RECURSIVE ScriptFrom(_, _, _)
ScriptFrom(k, lo, hi) ==
  IF lo = hi THEN ScriptLine(k, lo \div NUM_SW, lo % NUM_SW)
  ELSE ScriptFrom(k, lo, (lo + hi) \div 2) \o ScriptFrom(k, (lo + hi) \div 2 + 1, hi)

Script(k) == ScriptFrom(k, 0, NUM_BANKS * NUM_SW - 1)

\* "SAVE", "LOAD", "DUMP" with their line ends; SAVE comes with CR LF
LineSave == STR_SAVE \o <<CR, NL>>
LineLoad == STR_LOAD \o <<NL>>
LineDump == STR_DUMP \o <<NL>>
\* "HELLO"
LineUnknown == <<72, 69, 76, 76, 79, NL>>
\* "SET,1,1,AB": five tokens short
LineShortSet == STR_SET \o <<49, COMMA, 49, COMMA, 65, 66, NL>>
\* "SET,1,1,VOL_,1,1,7,100,0"
LineSetVol == SetLine(1, 1, <<86, 79, 76, UNDERSCORE>>, ACT_CC, 1, 7, 100, 0)
\* "SET,1,2,_AB_,1,1,7,100,0": the label " AB ", a space on either side
LineSetSpaced == SetLine(1, 2, <<UNDERSCORE, 65, 66, UNDERSCORE>>, ACT_CC, 1, 7, 100, 0)
\* "SET,1,1,VOL_,1,1,7,100,0,9": a ninth field
LineLongSet ==
  SubSeq(LineSetVol, 1, Len(LineSetVol) - 1) \o <<COMMA, 57, NL>>
\* "SET, 2 ,3, AB ,9,0,200,-5,300": spaces around tokens, every field clamped
LineSetClamped ==
  STR_SET \o <<SPACE, 50, SPACE, COMMA, 51, COMMA, SPACE, 65, 66, SPACE, COMMA>>
    \o Num(9) \o <<COMMA>> \o Num(0) \o <<COMMA>> \o Num(200) \o <<COMMA>>
    \o Num(-5) \o <<COMMA>> \o Num(300) \o <<NL>>
\* "SET,1,1,TGL,5,2,20,90,0": a CC_TOGGLE on bank 1, SW1
LineSetToggle == SetLine(1, 1, <<84, 71, 76>>, ACT_CC_TOGGLE, 2, 20, 90, 0)
\* "SET,2,6,DN,4,1,0,0,0": BankDown on bank 2, SW6
LineSetDown == SetLine(2, 6, <<68, 78>>, ACT_BANK_DOWN, 1, 0, 0, 0)
\* bank 0, bank 5, switch 7
LineBadBank0 == SetLine(0, 1, <<88>>, ACT_CC, 1, 1, 1, 1)
LineBadBank5 == SetLine(5, 1, <<88>>, ACT_CC, 1, 1, 1, 1)
LineBadSwitch == SetLine(1, 7, <<88>>, ACT_CC, 1, 1, 1, 1)

\* a line of LINEBUF_SIZE letters x followed by "SAVE": one character more
\* than lineBuf takes, then a command's letters, before the line ends
LineTooLong == [i \in 1 .. LINEBUF_SIZE |-> 120] \o STR_SAVE \o <<NL>>

\* EEPROM contents at power-up: erased; the marker over erased slots; the
\* marker over slots of arbitrary bytes
MagicOver(e) ==
  [a \in DOMAIN e |-> IF a < 4 THEN EEPROM_MAGIC[a + 1] ELSE e[a]]

EepromImages ==
  {ErasedEeprom, MagicOver(ErasedEeprom),
   MagicOver([a \in 0 .. (EEPROM_SIZE - 1) |-> (a * 37 + 11) % 256])}

----------------------------------------------------------------------------
(* Configuration and persistence: the protocol, no switch moves *)

CfgStreams ==
  {Script(k) : k \in 1 .. NumScripts}
    \cup {LineSetVol, LineSetClamped, LineLongSet, LineTooLong, LineSave,
          LineLoad, LineDump, LineUnknown, LineShortSet, LineBadBank0}

InitCfg ==
  \E e \in EepromImages :
    \E m \in {setup(e, AllOpen, HistInit)} : IsState(m)

LoopCfg ==
  \E chars \in CfgStreams :
    \E m \in {loop(Cur, chars, AllOpen, DEBOUNCE_MS)} : Becomes(m)

PowerCycle ==
  \E m \in {setup(eeprom, AllOpen, HistAfterPowerCycle(hist))} : Becomes(m)

NextCfg == LoopCfg \/ PowerCycle

SpecCfg == InitCfg /\ [][NextCfg]_vars

----------------------------------------------------------------------------
(* Commands and presses: the protocol while SW1 moves *)

CmdStreams ==
  {<<>>, LineSetToggle, LineSetVol, LineSave, LineLoad, LineUnknown,
   LineShortSet, LineBadBank0, LineBadBank5, LineBadSwitch}

InitCmd ==
  \E raws \in RawsOver({0}) :
    \E m \in {setup(ErasedEeprom, raws, HistInit)} : IsState(m)

LoopCmd ==
  \E chars \in CmdStreams, raws \in RawsOver({0}) :
    \E m \in {loop(Cur, chars, raws, DEBOUNCE_MS)} : Becomes(m)

NextCmd == LoopCmd

SpecCmd == InitCmd /\ [][NextCmd]_vars

----------------------------------------------------------------------------
(* Claims on the configuration *)

\* the fields of a line, cut at every comma, untrimmed
RECURSIVE Fields(_)
Fields(line) ==
  LET k == FirstIdx(line, COMMA)
  IN IF k = 0 THEN <<line>>
     ELSE <<SubSeq(line, 1, k - 1)>> \o Fields(SubSeq(line, k + 1, Len(line)))

SlotInRange(s) ==
  /\ s.type \in ACT_NONE .. ACT_CC_ONE_SHOT
  /\ s.ch \in 1 .. 16
  /\ s.num \in 0 .. 127 /\ s.vPress \in 0 .. 127 /\ s.vRelease \in 0 .. 127

\* C7: in every reachable state every slot of the grid has a type in 0..6, a
\* channel in 1..16, and number, pressValue and releaseValue in 0..127.
C7_SlotsInRange == \A b \in Banks, s \in Switches : SlotInRange(cfg[b][s])

\* a DUMP line carries the label and the five numbers of slot s
LineShows(line, s) ==
  LET f == Fields(line)
  IN /\ Len(f) = 9
     /\ f[4] = s.label
     /\ f[5] = PrintDec(s.type) /\ f[6] = PrintDec(s.ch) /\ f[7] = PrintDec(s.num)
     /\ f[8] = PrintDec(s.vPress) /\ f[9] = PrintDec(s.vRelease)

\* C8: a DUMP that follows SAVE (of a grid SET has configured in all 24
\* slots), a power cycle and LOAD emits 24 SET lines whose label, type,
\* channel, number, pressValue and releaseValue are those of the grid at the
\* time of the SAVE.
C8_RoundTrip ==
  hist.dump.phase = "loaded" =>
    /\ Len(hist.dump.lines) = NUM_BANKS * NUM_SW
    /\ \A k \in 1 .. (NUM_BANKS * NUM_SW) :
         LineShows(hist.dump.lines[k],
                   hist.saved[(k - 1) \div NUM_SW][(k - 1) % NUM_SW])

OnlyErrors(out) ==
  out # <<>> /\ \A k \in 1 .. Len(out) : IsPrefix(STR_ERR, out[k])

\* C9: a loop() whose commands were all answered with an error response, and
\* which dispatched no switch action, leaves the grid, the toggle bits, the
\* active bank and the EEPROM as they were.
C9_ErrorsChangeNothing ==
  [][(OnlyErrors(serialOut') /\ events' = <<>>)
       => (/\ cfg' = cfg /\ togState' = togState
           /\ currentBank' = currentBank /\ eeprom' = eeprom)]_vars

\* C9 witness: LOAD has just been refused for want of a marker, on a grid
\* that SET has changed and with a toggle bit set.
C9_Witness ==
  /\ serialOut = <<ERR_NO_EEPROM_CONFIG>> /\ events = <<>>
  /\ cfg[0][0].type = ACT_CC_TOGGLE /\ togState[0][0]

\* C10: a press dispatched on a CC_TOGGLE slot sends its control change with
\* pressValue when it is the first, third, ... press since the last
\* successful SET on the slot (or since startup), and with 0 when it is the
\* second, fourth, ...: two consecutive presses send pressValue then 0, and
\* the press after a SET sends pressValue.
C10_TogglePressValues ==
  \A k \in 1 .. Len(events) :
    LET e == events[k]
    IN (e.kind = "switch" /\ e.pressed /\ e.slot.type = ACT_CC_TOGGLE /\ e.nth > 0)
         => e.midi = MidiCC(e.slot.ch, e.slot.num,
                            IF e.nth \in {1, 3} THEN e.slot.vPress ELSE 0)

\* C10 witness: the first press after a SET that found the toggle bit set
\* has just sent pressValue.
C10_Witness ==
  \E k \in 1 .. Len(events) :
    /\ events[k].kind = "switch" /\ events[k].pressed
    /\ events[k].slot.type = ACT_CC_TOGGLE /\ events[k].nth = 1
    /\ hist.setFoundTog[events[k].bank - 1][events[k].sw]
    /\ events[k].slot.vPress > 0
    /\ events[k].midi.val = events[k].slot.vPress

\* the second of two consecutive presses has just sent 0
C10_SecondPress ==
  \E k \in 1 .. Len(events) :
    /\ events[k].kind = "switch" /\ events[k].pressed
    /\ events[k].slot.type = ACT_CC_TOGGLE /\ events[k].nth = 2
    /\ events[k].slot.vPress > 0 /\ events[k].midi.val = 0

----------------------------------------------------------------------------
(* Claims on the toggle bits, the SET format and the line buffer *)

\* the response line was printed
Said(out, line) == \E k \in 1 .. Len(out) : out[k] = line

\* C11: after a loop() that dispatched no switch action, every slot that a
\* successful LOAD of that loop rewrote (all 24), and every slot that has
\* seen no toggle press since the last successful SET on it, has its toggle
\* bit false.
C11_ToggleResetOnRewrite ==
  events = <<>> =>
    \A b \in Banks, s \in Switches :
      (Said(serialOut, OK_LOADED) \/ hist.presses[b][s] = 0) => ~togState[b][s]

\* C12: a SET line is applied to the grid only when exactly 8 fields follow
\* the keyword: after every loop() that applied one, the line it applied had
\* 8 fields.
C12_SetNeedsEightFields ==
  hist.set.applied => hist.set.fields = SET_TOKENS

\* C13: no character of a line that overflowed the line buffer is dispatched
\* as a command, and the line buffer is empty after a line terminator (every
\* input of the model ends with one).
C13_LongLineDiscarded ==
  ~hist.long.dispatched /\ lineBuf = <<>>

----------------------------------------------------------------------------
(* The active bank: commands arrive, SW5 and SW6 move *)

BankStreams == {<<>>, LineSetDown, LineSave, LineLoad, LineDump}

InitBank ==
  \E raws \in RawsOver({4, 5}) :
    \E m \in {setup(ErasedEeprom, raws, HistInit)} : IsState(m)

\* a command arrives while the switches hold still, or the switches move
LoopBank ==
  \E chars \in BankStreams, raws \in RawsOver({4, 5}), dt \in Dts :
    /\ chars = <<>> \/ (raws = rawState /\ dt = DEBOUNCE_MS)
    /\ \E m \in {loop(Cur, chars, raws, dt)} : Becomes(m)

NextBank == LoopBank

SpecBank == InitBank /\ [][NextBank]_vars

\* the bank that entry e of the dispatch history leaves, found in bank b
BankLeftBy(e, b) ==
  IF e.kind = "chord45" THEN BankDownOf(b)
  ELSE IF e.kind = "chord56" THEN BankUpOf(b)
  ELSE IF e.pressed /\ e.slot.type = ACT_BANK_UP THEN BankUpOf(b)
  ELSE IF e.pressed /\ e.slot.type = ACT_BANK_DOWN THEN BankDownOf(b)
  ELSE b

\* C14: the active bank is in 1..4; a loop() that dispatches nothing leaves
\* it alone, whatever commands it ran; and along the dispatches of a loop()
\* a chord or a press on a BankUp / BankDown slot moves it circularly by one
\* (BankUp 4 -> 1, BankDown 1 -> 4) and every other dispatch leaves it alone.
C14_BankMoves ==
  [][/\ currentBank' \in 1 .. NUM_BANKS
     /\ events' = <<>> => currentBank' = currentBank
     /\ events' # <<>> => events'[1].bank = currentBank
     /\ \A k \in 1 .. Len(events') :
          BankAfter(events', k, currentBank') = BankLeftBy(events'[k], events'[k].bank)]_vars

\* C14 witness: in a loop() that also ran a command, a press of SW6 was
\* dispatched on the BankUp slot of bank 4 and took the active bank to 1.
C14_Witness ==
  /\ serialOut # <<>>
  /\ \E k \in 1 .. Len(events) :
       /\ events[k].kind = "switch" /\ events[k].sw = 5 /\ events[k].pressed
       /\ events[k].slot.type = ACT_BANK_UP /\ events[k].bank = NUM_BANKS
       /\ BankAfter(events, k, currentBank) = 1

----------------------------------------------------------------------------
(* Capturing a DUMP and sending it back *)

CapStreams == {LineSetVol, LineSetSpaced, LineSave, LineDump}

InitCap ==
  \E m \in {setup(ErasedEeprom, AllOpen, HistInit)} : IsState(m)

LoopCap ==
  \E chars \in CapStreams :
    \E m \in {loop(Cur, chars, AllOpen, DEBOUNCE_MS)} : Becomes(m)

\* the lines lo .. hi of a capture, each with its line end, as the host sends
\* them back
RECURSIVE LinesFrom(_, _, _)
LinesFrom(lines, lo, hi) ==
  IF lo = hi THEN lines[lo] \o <<NL>>
  ELSE LinesFrom(lines, lo, (lo + hi) \div 2)
         \o LinesFrom(lines, (lo + hi) \div 2 + 1, hi)

\* the host sends the SET lines of the captured DUMP back
Replay ==
  /\ hist.capture.lines # <<>>
  /\ \E m \in {loop(Cur, LinesFrom(hist.capture.lines, 1, NUM_BANKS * NUM_SW),
                    AllOpen, DEBOUNCE_MS)} :
       Becomes([m EXCEPT !.hist.replayOf = hist.capture.cfg])

NextCap == LoopCap \/ PowerCycle \/ Replay

SpecCap == InitCap /\ [][NextCap]_vars

\* C15: after the 24 SET lines of a DUMP have been fed back, to the grid
\* that was dumped or to the grid a power cycle has put in its place, every
\* slot equals the dumped one in label, type, channel, number, pressValue and
\* releaseValue.
C15_DumpReplays ==
  hist.replayOf # <<>> =>
    \A b \in Banks, s \in Switches : cfg[b][s] = hist.replayOf[b][s]

----------------------------------------------------------------------------
(* Claims on the switches after a chord, and on pending presses *)

\* C16: a switch of SW4..SW6 that was stable-pressed when a chord fired gets
\* no handleSwitchEvent call, press or release, later in that loop() or in
\* any loop() that begins with the switch still stable-pressed since then:
\* it stays without individual action until its debounced release, which
\* dispatches nothing either, and a new debounced press.
C16_NoActionAfterChord ==
  [][\A i \in {3, 4, 5} :
       /\ hist.disarmed[i] =>
            \A k \in 1 .. Len(events') :
              ~(events'[k].kind = "switch" /\ events'[k].sw = i)
       /\ \A k \in 1 .. Len(events'), j \in 1 .. Len(events') :
            (/\ k < j /\ events'[k].kind \in {"chord45", "chord56"}
             /\ events'[k].stable[i])
              => ~(events'[j].kind = "switch" /\ events'[j].sw = i)]_vars

\* C16 witness: SW4 was in the 3+4 chord, SW5 has been released since, SW4
\* has stayed down for the whole chord window, and nothing was dispatched or
\* is pending or sent for it.
C16_Witness ==
  /\ hist.disarmed[3] /\ ~stableState[4] /\ ~stableState[5]
  /\ hist.heldFor[3] = CHORD_WINDOW_MS
  /\ events = <<>> /\ ~pendingPress[3] /\ ~sentPress[3]

\* how a loop() resolved the pending press of switch i
Tapped(i, evs, post) ==
  SwPressed(evs, i) = <<TRUE, FALSE>> /\ BackToBack(evs, i) /\ ~post.stableState[i]
Committed(i, evs, post) ==
  /\ SwPressed(evs, i) = <<TRUE>> /\ post.sentPress[i] /\ post.stableState[i]
  /\ post.hist.heldFor[i] = CHORD_WINDOW_MS
Discarded(i, evs, post) ==
  /\ SwPressed(evs, i) = <<>> /\ ~post.sentPress[i]
  /\ \E k \in 1 .. Len(evs) : evs[k].kind \in {"chord45", "chord56"}

\* C17: with loop() running again and again, a pending press of SW4..SW6 does
\* not stay pending for ever; and the loop() that ends it is a tap (press and
\* release dispatched back to back), a commit (one press dispatched, 120 ms
\* or more after the debounced press, sentPress set) or a chord that fired
\* and dispatched nothing for the switch.
C17_PendingResolved ==
  /\ [][\A i \in {3, 4, 5} :
          (pendingPress[i] /\ ~pendingPress'[i]) =>
             LET post == [stableState |-> stableState', sentPress |-> sentPress',
                          hist |-> hist']
             IN \/ Tapped(i, events', post)
                \/ Committed(i, events', post)
                \/ Discarded(i, events', post)]_vars
  /\ \A i \in {3, 4, 5} : []<>(~pendingPress[i])

\* C17 witness: SW5 is held with the 4+5 chord latched; SW6's press was
\* debounced in the last loop() and its pending press went with the chord
\* that fired there.
C17_Witness ==
  /\ stableState[4] /\ stableState[5] /\ chord56Latched
  /\ hist.heldFor[5] = 0 /\ hist.heldFor[4] > 0
  /\ ~pendingPress[5] /\ ~sentPress[5]
  /\ \E k \in 1 .. Len(events) : events[k].kind = "chord56"

----------------------------------------------------------------------------
(* Claims on the pairing of press and release, and on the flags *)

----------------------------------------------------------------------------
(* C19 *)

\* C19: at the end of every loop(), each of SW4..SW6 is idle, pending or
\* committed and never two of them: pendingPress[i] and sentPress[i] are not
\* both set, and each is set only while stableState[i] is.
C19_PendingXorSent ==
  \A i \in {3, 4, 5} :
    /\ ~(pendingPress[i] /\ sentPress[i])
    /\ pendingPress[i] => stableState[i]
    /\ sentPress[i] => stableState[i]

\* SW4 is committed, SW6 is pending and SW5 is idle
C19_Witness ==
  /\ sentPress[3] /\ ~pendingPress[3] /\ stableState[3]
  /\ pendingPress[5] /\ ~sentPress[5] /\ stableState[5]
  /\ ~pendingPress[4] /\ ~sentPress[4] /\ ~stableState[4]

----------------------------------------------------------------------------
(* C20 *)

\* C20: a loop() up to whose end no switch has had a debounced transition
\* since startup dispatches no action and leaves the active bank alone; so
\* the first loop() after a startup with a chord pair closed fires no chord.
C20_QuietUntilFirstTransition ==
  [][~hist'.moved => (events' = <<>> /\ currentBank' = currentBank)]_vars

====
